---- MODULE Spec2Model ----
(***************************************************************************)
(* A model of the data-analysis agent (src/new/utils/ai_agent.py) and of   *)
(* the parts of the renderer and the file handler it depends on.           *)
(*                                                                         *)
(* Texts (the model's reply, the raw response) are sequences of tokens; a  *)
(* token stands for the characters of one lexical unit of the reply.  The  *)
(* braces are tokens of their own, so the regular expressions of           *)
(* _extract_json_from_text see exactly the braces json.loads sees.         *)
(***************************************************************************)
EXTENDS Integers, Sequences, FiniteSets, TLC

(***************************************************************************)
(* Bounds of the model.                                                    *)
(***************************************************************************)
\* the longest array (and string) a reply carries
MaxLen == 3
\* the most rows of a dataset handed to process_query
MaxQueryRows == 2
\* the most rows of a dataset handed to the summarizer alone
MaxRows == 112

(***************************************************************************)
(* Program constants.                                                      *)
(***************************************************************************)
\* len(df) <= 100: the full dump is used up to this row count
FullDumpLimit == 100
\* df.head(10) / df.tail(10)
WindowRows == 10
\* len(df) // 2 - 5 and len(df) // 2 + 5
HalfWindow == 5
\* len(df) * 2 and max_unique_values * 2
Allowance == 2

(***************************************************************************)
(* Python values decoded from JSON.  null decodes to None, which is also   *)
(* what _extract_json_from_text returns when nothing parses.               *)
(***************************************************************************)
Num == [kind |-> "num"]
None == [kind |-> "null"]
\* a str of n characters that contains the strings `has` as substrings
Str(n, has) == [kind |-> "str", len |-> n, has |-> has]
\* a list of n scalars
Arr(n) == [kind |-> "arr", len |-> n]
\* a dict: m maps its keys to values
Obj(m) == [kind |-> "obj", m |-> m]
EmptyMap == [k \in {} |-> None]
\* the outcome of an operation that raised
Raised == [kind |-> "raised"]

\* key in v
PyIn(key, v) ==
  CASE v.kind = "obj" -> IF key \in DOMAIN v.m THEN "true" ELSE "false"
    [] v.kind = "str" -> IF key \in v.has THEN "true" ELSE "false"
    [] v.kind = "arr" -> "false"
    [] OTHER -> "raised"

\* v[key] for a string key
PyGetItem(v, key) ==
  IF v.kind = "obj" /\ key \in DOMAIN v.m THEN v.m[key] ELSE Raised

\* len(v); -1 when it raises
PyLen(v) ==
  CASE v.kind = "obj" -> Cardinality(DOMAIN v.m)
    [] v.kind \in {"str", "arr"} -> v.len
    [] OTHER -> -1

\* a test that only None fails: v is not None
PyIsNotNone(v) == v.kind # "null"

\* bool(v)
PyTruthy(v) ==
  CASE v.kind = "obj" -> DOMAIN v.m # {}
    [] v.kind \in {"str", "arr"} -> v.len > 0
    [] v.kind = "null" -> FALSE
    [] OTHER -> TRUE

(***************************************************************************)
(* Tokens of a text.                                                       *)
(***************************************************************************)
LBrace == [t |-> "{"]
RBrace == [t |-> "}"]
Comma == [t |-> ","]
\* "key":
Key(k) == [t |-> "key", k |-> k]
\* the literal of a brace-free value (number, string, null, array of scalars)
Atom(v) == [t |-> "atom", v |-> v]
\* an array nested deeper than the interpreter's recursion limit
Deep == [t |-> "deep"]
\* a word of prose
Word == [t |-> "w"]
\* white space
Space == [t |-> "ws"]

(***************************************************************************)
(* json.dumps, as the model writes a reply: the keys of an object in the   *)
(* order KeyOrder.                                                         *)
(***************************************************************************)
KeyOrder ==
  <<"answer", "table", "bar", "line", "pie", "scatter", "other",
    "columns", "data", "labels", "values", "x", "y">>

RECURSIVE Serialize(_)
RECURSIVE SerializeMembers(_, _, _)
SerializeMembers(m, i, first) ==
  IF i > Len(KeyOrder) THEN <<>>
  ELSE IF KeyOrder[i] \in DOMAIN m
       THEN (IF first THEN <<>> ELSE <<Comma>>)
            \o <<Key(KeyOrder[i])>> \o Serialize(m[KeyOrder[i]])
            \o SerializeMembers(m, i + 1, FALSE)
       ELSE SerializeMembers(m, i + 1, first)

Serialize(v) ==
  IF v.kind = "obj"
  THEN <<LBrace>> \o SerializeMembers(v.m, 1, TRUE) \o <<RBrace>>
  ELSE <<Atom(v)>>

(***************************************************************************)
(* json.loads.  st is "ok" (val is the value), "decode" (JSONDecodeError)  *)
(* or "raised" (another exception: RecursionError on a Deep array).        *)
(***************************************************************************)
Decoded(v, next) == [st |-> "ok", val |-> v, next |-> next]
DecodeError == [st |-> "decode", val |-> None, next |-> 0]
OtherError == [st |-> "raised", val |-> None, next |-> 0]

RECURSIVE ParseValue(_, _)
RECURSIVE ParseMembers(_, _, _, _)
\* the members of an object whose "{" has been read, from token i on
ParseMembers(ts, i, m, first) ==
  IF i > Len(ts) THEN DecodeError
  ELSE IF first /\ ts[i] = RBrace THEN Decoded(Obj(m), i + 1)
  ELSE IF ts[i].t # "key" THEN DecodeError
  ELSE LET r == ParseValue(ts, i + 1) IN
       IF r.st # "ok" THEN r
       ELSE LET m2 == (ts[i].k :> r.val) @@ m IN
            IF r.next > Len(ts) THEN DecodeError
            ELSE IF ts[r.next] = RBrace THEN Decoded(Obj(m2), r.next + 1)
            ELSE IF ts[r.next] = Comma THEN ParseMembers(ts, r.next + 1, m2, FALSE)
            ELSE DecodeError

ParseValue(ts, i) ==
  IF i > Len(ts) THEN DecodeError
  ELSE CASE ts[i].t = "atom" -> Decoded(ts[i].v, i + 1)
         [] ts[i].t = "deep" -> OtherError
         [] ts[i].t = "{" -> ParseMembers(ts, i + 1, EmptyMap, TRUE)
         [] OTHER -> DecodeError

\* json.loads(ts): one value and nothing after it ("Extra data" otherwise)
JsonLoads(ts) ==
  LET r == ParseValue(ts, 1) IN
  IF r.st = "ok" /\ r.next # Len(ts) + 1 THEN DecodeError ELSE r

(***************************************************************************)
(* str.strip(): the white space at both ends removed.                      *)
(***************************************************************************)
RECURSIVE LStrip(_)
LStrip(ts) ==
  IF ts # <<>> /\ Head(ts) = Space THEN LStrip(Tail(ts)) ELSE ts

RECURSIVE RStrip(_)
RStrip(ts) ==
  IF ts # <<>> /\ ts[Len(ts)] = Space
  THEN RStrip(SubSeq(ts, 1, Len(ts) - 1)) ELSE ts

Strip(ts) == RStrip(LStrip(ts))

(***************************************************************************)
(* re.findall(pattern, text, re.DOTALL) for the two patterns of            *)
(* _extract_json_from_text: the leftmost non-overlapping matches.          *)
(***************************************************************************)
IsBrace(tok) == tok = LBrace \/ tok = RBrace

\* r'\{[^{}]*\}' at i: the index of the match's last token, 0 for no match
MatchSimpleAt(ts, i) ==
  IF ts[i] # LBrace THEN 0
  ELSE LET later == {j \in (i + 1)..Len(ts) : IsBrace(ts[j])} IN
       IF later = {} THEN 0
       ELSE LET j == CHOOSE k \in later : \A l \in later : k <= l IN
            IF ts[j] = RBrace THEN j ELSE 0

\* r'\{.*?\}' at i: up to the first "}" after i
MatchLazyAt(ts, i) ==
  IF ts[i] # LBrace THEN 0
  ELSE LET later == {j \in (i + 1)..Len(ts) : ts[j] = RBrace} IN
       IF later = {} THEN 0
       ELSE CHOOSE k \in later : \A l \in later : k <= l

MatchAt(pattern, ts, i) ==
  IF pattern = 1 THEN MatchSimpleAt(ts, i) ELSE MatchLazyAt(ts, i)

RECURSIVE FindAll(_, _, _)
FindAll(pattern, ts, i) ==
  IF i > Len(ts) THEN <<>>
  ELSE LET e == MatchAt(pattern, ts, i) IN
       IF e > 0 THEN <<SubSeq(ts, i, e)>> \o FindAll(pattern, ts, e + 1)
       ELSE FindAll(pattern, ts, i + 1)

\* the first candidate that json.loads accepts; None when there is none;
\* "raised" when json.loads raises anything but JSONDecodeError on the way
RECURSIVE FirstLoadable(_, _)
FirstLoadable(cands, i) ==
  IF i > Len(cands) THEN Decoded(None, 0)
  ELSE LET r == JsonLoads(cands[i]) IN
       IF r.st = "decode" THEN FirstLoadable(cands, i + 1) ELSE r

\* the candidates of the first pattern, then those of the second
SalvageCandidates(ts) == FindAll(1, ts, 1) \o FindAll(2, ts, 1)

ExtractJsonFromText(ts) == FirstLoadable(SalvageCandidates(ts), 1)

(***************************************************************************)
(* Datasets.  A DataFrame has n rows and the columns cols; the cell of     *)
(* column j at position pos (0-based) cycles through `period` values, and  *)
(* NaN is the cell value 0.  Column labels may repeat: _clean_dataframe    *)
(* strips the labels after read_csv has made them distinct, so " a" and    *)
(* "a" both become "a".                                                    *)
(***************************************************************************)
NaN == 0

Column(name, dtype, period, nulls) ==
  [name |-> name, dtype |-> dtype, period |-> period, nulls |-> nulls]

DataFrame(n, cols) == [n |-> n, cols |-> cols]

\* df.iloc[pos][j]
Cell(d, j, pos) ==
  IF d.cols[j].nulls THEN pos % d.cols[j].period
  ELSE (pos % d.cols[j].period) + 1

\* len(df)
RowCount(d) == d.n

\* df.index[pos]: reset_index(drop=True) and the DataFrame constructor both
\* give the RangeIndex 0..n-1
IndexLabel(d, pos) == pos

\* df[col] is a Series only when the label col is unique in df.columns;
\* otherwise it is a DataFrame, which has no dtype, count or nunique as
\* the code uses them
LabelIsUnique(d, j) ==
  \A k \in 1..Len(d.cols) : d.cols[k].name = d.cols[j].name => k = j

DuplicateLabels(d) == \E j \in 1..Len(d.cols) : ~LabelIsUnique(d, j)

\* df[col].count()
NonNullCount(d, j) ==
  Cardinality({pos \in 0..(d.n - 1) : Cell(d, j, pos) # NaN})

\* df[col].nunique()
NUnique(d, j) ==
  Cardinality({Cell(d, j, pos) : pos \in 0..(d.n - 1)} \ {NaN})

\* df[col].value_counts()[v]
ValueCount(d, j, v) ==
  Cardinality({pos \in 0..(d.n - 1) : Cell(d, j, pos) = v})

IsNumericDtype(dtype) == dtype \in {"int64", "float64", "int32", "float32"}
IsTextDtype(dtype) == dtype = "object"

Min(a, b) == IF a < b THEN a ELSE b
Max(a, b) == IF a > b THEN a ELSE b

(***************************************************************************)
(* The description: a sequence of lines.                                   *)
(***************************************************************************)
TextLine(s) == [kind |-> "text", text |-> s]
\* a line that prints a count
FieldLine(s, v) == [kind |-> "field", text |-> s, value |-> v]
\* a line that prints a name
NameLine(s, v) == [kind |-> "name", text |-> s, name |-> v]
\* "第{label}行：col=value, ..."
RowLine(d, pos) ==
  [kind |-> "row", label |-> IndexLabel(d, pos) + 1,
   cells |-> [j \in 1..Len(d.cols) |->
                [col |-> d.cols[j].name, val |-> Cell(d, j, pos)]]]
\* "中间部分（第{first}-{last}行）："
MiddleHeader(first, last) == [kind |-> "middle", first |-> first, last |-> last]
\* "生成数据信息时出错：..."
ErrorText(e) == <<[kind |-> "error", text |-> e]>>

\* the row lines of positions lo..hi-1, as df.iloc[lo:hi].iterrows() gives them
RowLines(d, lo, hi) ==
  [i \in 1..Max(0, hi - lo) |-> RowLine(d, lo + i - 1)]

\* the values df[col].value_counts().head(10) lists: by falling count, and
\* the cells cycle, so that is the order 1, 2, ...
TopValues == 10
ValueLines(d, j) ==
  [v \in 1..Min(TopValues, NUnique(d, j)) |->
     [kind |-> "count", value |-> v, count |-> ValueCount(d, j, v)]]

\* the column's largest and smallest value, from describe()
StatsLine(d, j) ==
  LET vals == {Cell(d, j, pos) : pos \in 0..(d.n - 1)} \ {NaN} IN
  IF vals = {} THEN <<[kind |-> "stats", max |-> NaN, min |-> NaN]>>
  ELSE <<[kind |-> "stats",
          max |-> CHOOSE v \in vals : \A w \in vals : w <= v,
          min |-> CHOOSE v \in vals : \A w \in vals : v <= w]>>

ColumnLines(d, j) ==
  <<NameLine("name", d.cols[j].name),
    NameLine("dtype", d.cols[j].dtype),
    FieldLine("non_null", NonNullCount(d, j)),
    FieldLine("null", d.n - NonNullCount(d, j)),
    FieldLine("unique", NUnique(d, j))>>
  \o (IF IsNumericDtype(d.cols[j].dtype) THEN StatsLine(d, j)
      ELSE IF IsTextDtype(d.cols[j].dtype) \/ d.cols[j].dtype = "category"
      THEN <<TextLine("value_counts")>> \o ValueLines(d, j)
      ELSE <<>>)
  \o <<TextLine("")>>

RECURSIVE AllColumnLines(_, _)
AllColumnLines(d, j) ==
  IF j > Len(d.cols) THEN <<>>
  ELSE ColumnLines(d, j) \o AllColumnLines(d, j + 1)

\* the rows section of a dataset of at most FullDumpLimit rows
FullDump(d) == <<TextLine("all_rows")>> \o RowLines(d, 0, d.n)

MidStart(d) == (d.n \div 2) - HalfWindow
MidEnd(d) == (d.n \div 2) + HalfWindow

\* the rows section of a larger dataset: head(10), iloc[mid_start:mid_end],
\* tail(10)
SampleDump(d) ==
  <<TextLine("sample"), TextLine("first_rows")>>
  \o RowLines(d, 0, Min(WindowRows, d.n))
  \o <<MiddleHeader(MidStart(d) + 1, MidEnd(d))>>
  \o RowLines(d, MidStart(d), MidEnd(d))
  \o <<TextLine("last_rows")>>
  \o RowLines(d, Max(0, d.n - WindowRows), d.n)

\* _generate_complete_data_info: the first df[col].dtype of a repeated
\* label raises, and the outer handler returns the error text alone
GenerateCompleteDataInfo(d) ==
  IF DuplicateLabels(d) THEN ErrorText("AttributeError")
  ELSE <<TextLine("basic"), FieldLine("rows", d.n),
         FieldLine("cols", Len(d.cols)), TextLine(""), TextLine("columns")>>
       \o AllColumnLines(d, 1)
       \o (IF RowCount(d) <= FullDumpLimit THEN FullDump(d) ELSE SampleDump(d))

\* generate_data_summary
GenerateDataSummary(d) == GenerateCompleteDataInfo(d)

(***************************************************************************)
(* _validate_data_consistency.  The body of its try block gives "pass"     *)
(* (return True), "reject" (return False) or "raised".                     *)
(***************************************************************************)
\* a bound that also rejects a table of exactly twice the rows
TableTooLongInclusive(n, d) == n >= RowCount(d) * Allowance

\* len(table_data['data']) > len(df) * 2
TableTooLong(n, d) == n > RowCount(d) * Allowance

\* max([df[col].nunique() for col in df.columns if df[col].dtype ==
\* 'object'], default=len(df)); -1 when df[col] is no Series and it raises
MaxUniqueValues(d) ==
  LET text == {j \in 1..Len(d.cols) : IsTextDtype(d.cols[j].dtype)} IN
  IF DuplicateLabels(d) THEN -1
  ELSE IF text = {} THEN RowCount(d)
  ELSE CHOOSE m \in {NUnique(d, j) : j \in text} :
         \A j \in text : NUnique(d, j) <= m

\* a bound that also rejects a chart of exactly twice the distinct values
ChartTooLongInclusive(n, m) == n >= m * Allowance

\* len(chart_data['data']) > max_unique_values * 2
ChartTooLong(n, m) == n > m * Allowance

TableCheck(td, d) ==
  IF PyIn("data", td) = "raised" THEN "raised"
  ELSE IF PyIn("data", td) = "false" THEN "pass"
  ELSE LET dv == PyGetItem(td, "data") IN
       IF dv = Raised \/ PyLen(dv) < 0 THEN "raised"
       ELSE IF TableTooLong(PyLen(dv), d) THEN "reject" ELSE "pass"

ChartCheck(cd, d) ==
  IF PyIn("data", cd) = "raised" THEN "raised"
  ELSE IF PyIn("data", cd) = "false" \/ PyIn("columns", cd) = "false" THEN "pass"
  ELSE LET dv == PyGetItem(cd, "data")
           cv == PyGetItem(cd, "columns") IN
       IF dv = Raised \/ PyLen(dv) < 0 THEN "raised"
       ELSE IF cv = Raised \/ PyLen(cv) < 0 THEN "raised"
       ELSE IF PyLen(dv) # PyLen(cv) THEN "reject"
       ELSE IF MaxUniqueValues(d) < 0 THEN "raised"
       ELSE IF ChartTooLong(PyLen(dv), MaxUniqueValues(d)) THEN "reject"
       ELSE "pass"

\* chart_key = 'bar' if 'bar' in ai_result else 'line'
ChartKey(r) == IF PyIn("bar", r) = "true" THEN "bar" ELSE "line"

ValidateBody(r, d) ==
  IF PyIn("table", r) = "raised" THEN "raised"
  ELSE IF PyIn("table", r) = "true"
  THEN (IF PyGetItem(r, "table") = Raised THEN "raised"
        ELSE TableCheck(PyGetItem(r, "table"), d))
  ELSE IF PyIn("bar", r) = "true" \/ PyIn("line", r) = "true"
  THEN (IF PyGetItem(r, ChartKey(r)) = Raised THEN "raised"
        ELSE ChartCheck(PyGetItem(r, ChartKey(r)), d))
  ELSE "pass"

\* a handler that fails closed
ValidateOnFaultClosed == FALSE

\* except Exception: return True
ValidateOnFault == TRUE

ValidateDataConsistency(r, d) ==
  IF ValidateBody(r, d) = "raised" THEN ValidateOnFault
  ELSE ValidateBody(r, d) = "pass"

(***************************************************************************)
(* validate_response_format (no caller in the repository).                 *)
(***************************************************************************)
ValidKeys == {"answer", "table", "bar", "line", "pie", "scatter"}

ValidateResponseFormat(r) ==
  r.kind = "obj" /\ \E k \in ValidKeys : k \in DOMAIN r.m

(***************************************************************************)
(* DataVisualizer.render_response: the renderer that runs.                 *)
(***************************************************************************)
\* a chain that tests table before answer
RenderPriorityTableFirst ==
  <<"table", "answer", "bar", "line", "pie", "scatter">>

RenderPriority == <<"answer", "table", "bar", "line", "pie", "scatter">>

\* "empty" (nothing to show), "raised" (the in-test raised), "unsupported"
\* or the tag whose renderer is called
RenderedAs(r) ==
  IF ~PyTruthy(r) THEN "empty"
  ELSE IF PyIn("answer", r) = "raised" THEN "raised"
  ELSE LET present == {i \in 1..Len(RenderPriority) :
                         PyIn(RenderPriority[i], r) = "true"} IN
       IF present = {} THEN "unsupported"
       ELSE LET i == CHOOSE k \in present : \A l \in present : k <= l IN
            IF PyGetItem(r, RenderPriority[i]) = Raised THEN "raised"
            ELSE RenderPriority[i]

(***************************************************************************)
(* The inputs: datasets, questions, and what the language model returns.   *)
(***************************************************************************)
QueryLayouts ==
  {<<>>,
   <<Column("a", "int64", 2, FALSE)>>,
   <<Column("a", "object", 1, FALSE)>>,
   <<Column("a", "object", 2, FALSE)>>,
   <<Column("a", "object", 1, TRUE)>>,
   <<Column("a", "object", 2, FALSE), Column("b", "float64", 2, TRUE)>>,
   <<Column("a", "object", 2, FALSE), Column("a", "int64", 1, FALSE)>>}

QueryFrames == {DataFrame(n, cols) : n \in 0..MaxQueryRows, cols \in QueryLayouts}

Questions == {"q1"}

\* the values of the "columns" and "data" fields of a payload
FieldValues == {Arr(n) : n \in 0..MaxLen} \cup {Num, Str(MaxLen, {})}

PayloadMaps ==
  UNION {[ks -> FieldValues] : ks \in SUBSET {"columns", "data"}}

\* what a reply puts under table, bar or line
ChartPayloads ==
  {Obj(m) : m \in PayloadMaps} \cup {Num, None, Arr(1), Str(1, {"data"})}

\* the few payloads used in objects of two keys
SmallPayloads ==
  {Obj([k \in {"columns", "data"} |-> Arr(MaxLen)]),
   Obj([k \in {"columns", "data"} |-> IF k = "data" THEN Arr(2) ELSE Arr(1)]),
   Obj([k \in {"columns", "data"} |-> Arr(1)]),
   Num}

PiePayload == Obj([k \in {"labels", "values"} |-> Arr(1)])
ScatterPayload == Obj([k \in {"x", "y"} |-> Arr(1)])

PayloadsOf(k) ==
  CASE k \in {"table", "bar", "line"} -> ChartPayloads
    [] k = "answer" -> {Str(1, {})}
    [] k = "pie" -> {PiePayload}
    [] k = "scatter" -> {ScatterPayload}
    [] OTHER -> {Num}

SmallPayloadsOf(k) ==
  IF k \in {"table", "bar", "line"} THEN SmallPayloads ELSE PayloadsOf(k)

TopKeys == ValidKeys \cup {"other"}

OneKeyObjects == {Obj(k :> v) : k \in TopKeys, v \in ChartPayloads \cup {Str(1, {}), PiePayload, ScatterPayload}}

TwoKeyObjects ==
  UNION {{Obj((k1 :> v1) @@ (k2 :> v2)) :
            v1 \in SmallPayloadsOf(k1), v2 \in SmallPayloadsOf(k2)} :
         k1 \in TopKeys, k2 \in TopKeys}

\* the JSON documents a reply is built around
ReplyValues ==
  {v \in OneKeyObjects : \A k \in DOMAIN v.m : v.m[k] \in PayloadsOf(k)}
  \cup TwoKeyObjects
  \cup {Obj(EmptyMap), Num, None, Arr(0), Arr(1), Str(1, {}), Str(1, {"table"})}

AnswerObject == <<LBrace, Key("answer"), Atom(Str(1, {})), RBrace>>

\* replies that are not one JSON document with prose around it
OddTexts ==
  {<<>>, <<Word>>, <<LBrace>>, <<RBrace, LBrace>>, <<Deep>>,
   <<LBrace, Key("answer"), Atom(Num), Comma, RBrace>>,
   <<LBrace, Key("answer"), Deep, RBrace>>,
   <<Word, LBrace, Key("answer"), Deep, RBrace>>,
   <<LBrace, RBrace>> \o AnswerObject,
   <<LBrace, Word, RBrace>> \o AnswerObject,
   <<LBrace, LBrace, Word>> \o AnswerObject,
   AnswerObject \o <<LBrace, Key("table"), Atom(Num), RBrace>>}

ReplyTexts ==
  UNION {{Serialize(v), <<Space>> \o Serialize(v) \o <<Space>>,
          <<Word>> \o Serialize(v), Serialize(v) \o <<Word>>,
          <<Word>> \o Serialize(v) \o <<Word>>} : v \in ReplyValues}
  \cup OddTexts

\* invoke() raises, or returns a message whose content is a str or is not
ModelOutcomes ==
  {[raises |-> TRUE, isText |-> FALSE, content |-> <<>>],
   [raises |-> FALSE, isText |-> FALSE, content |-> <<>>]}
  \cup {[raises |-> FALSE, isText |-> TRUE, content |-> t] : t \in ReplyTexts}

(***************************************************************************)
(* process_query.                                                          *)
(***************************************************************************)
VARIABLES
  pc,             \* where the call is
  df,             \* the dataset of the call
  question,       \* user_question
  data_info,      \* the description
  full_prompt,    \* the prompt
  response,       \* what invoke returned
  response_text,  \* response.content.strip()
  result,         \* the parsed reply
  ret,            \* what process_query returned
  escaped,        \* whether an exception left the call
  hist,           \* what happened during the call
  response_data,  \* the argument of render_response
  shown,          \* the elements streamlit was told to show, in order
  calls,          \* the per-tag renderers called, with their arguments
  prev_info,      \* the description an earlier call returned
  session_data,   \* st.session_state.data
  uploaded_file,  \* the file the upload widget holds
  page,           \* the page the selectbox shows
  trigger,        \* what the next run of the script is started by
  expected        \* the outcome of the user's latest dataset action

\* the state of a render_response call
renderVars == <<response_data, shown, calls>>
\* the state of the script's session
uiVars == <<session_data, uploaded_file, page, trigger, expected>>
\* the state outside a process_query call
otherVars == <<renderVars, prev_info, uiVars>>
\* the state of the agent and its call
agentVars ==
  <<df, question, data_info, full_prompt, response, response_text, result,
    ret, hist>>

vars ==
  <<pc, df, question, data_info, full_prompt, response, response_text,
    result, ret, escaped, hist, response_data, shown, calls, prev_info,
    session_data, uploaded_file, page, trigger, expected>>

NoFrame == DataFrame(0, <<>>)
NoResponse == [raises |-> FALSE, isText |-> FALSE, content |-> <<>>]
NoReturn == [success |-> FALSE, data |-> None,
             error |-> [msg |-> "", detail |-> ""], raw_response |-> <<>>]
NoHist == [fault |-> "none", direct |-> "none", salvage |-> "none",
           check |-> "none"]

\* the message of the decode-error branch, used for both failures
MsgInconsistentMerged == "parse failed or inconsistent"

\* the three error messages of process_query
MsgInconsistent == "inconsistent"
MsgParseOrInconsistent == "parse failed or inconsistent"
MsgProcessing == "processing error"

Success(data, raw) ==
  [success |-> TRUE, data |-> data, error |-> [msg |-> "", detail |-> ""],
   raw_response |-> raw]
Failure(msg, detail, raw) ==
  [success |-> FALSE, data |-> None, error |-> [msg |-> msg, detail |-> detail],
   raw_response |-> raw]

\* a handler that names the decode error only
CaughtOnlyDecodeErrors(exc) == exc = "JSONDecodeError"

\* except Exception as e: every exception the steps raise is an Exception
CaughtByOuterHandler(exc) == TRUE

\* an exception exc raised inside the outer try block, at step `step`
Raise(step, exc) ==
  /\ pc' = "done"
  /\ hist' = [hist EXCEPT !.fault = step]
  /\ IF CaughtByOuterHandler(exc)
     THEN ret' = Failure(MsgProcessing, exc, <<>>) /\ escaped' = FALSE
     ELSE ret' = NoReturn /\ escaped' = TRUE

\* st.session_state.data is None; the upload widget holds no file
NoData == "none"
NoFile == "none"

Init ==
  /\ pc = "idle"
  /\ df = NoFrame
  /\ question = ""
  /\ data_info = <<>>
  /\ full_prompt = [info |-> <<>>, question |-> ""]
  /\ response = NoResponse
  /\ response_text = <<>>
  /\ result = None
  /\ ret = NoReturn
  /\ escaped = FALSE
  /\ hist = NoHist
  /\ response_data = None
  /\ shown = <<>>
  /\ calls = <<>>
  /\ prev_info = <<>>
  /\ session_data = NoData
  /\ uploaded_file = NoFile
  /\ page = "overview"
  /\ trigger = "none"
  /\ expected = NoData

\* the caller calls process_query(user_question, df)
Call ==
  /\ pc = "idle"
  /\ \E d \in QueryFrames, q \in Questions : df' = d /\ question' = q
  /\ pc' = "summarise"
  /\ data_info' = <<>>
  /\ full_prompt' = [info |-> <<>>, question |-> ""]
  /\ response' = NoResponse
  /\ response_text' = <<>>
  /\ result' = None
  /\ ret' = NoReturn
  /\ escaped' = FALSE
  /\ hist' = NoHist
  /\ UNCHANGED otherVars

\* data_info = self._generate_complete_data_info(df)
Summarise ==
  /\ pc = "summarise"
  /\ data_info' = GenerateCompleteDataInfo(df)
  /\ pc' = "prompt"
  /\ UNCHANGED <<df, question, full_prompt, response, response_text, result,
                 ret, escaped, hist>>
  /\ UNCHANGED otherVars

\* full_prompt = f"...{data_info}...{user_question}..."
BuildPrompt ==
  /\ pc = "prompt"
  /\ full_prompt' = [info |-> data_info, question |-> question]
  /\ pc' = "invoke"
  /\ UNCHANGED <<df, question, data_info, response, response_text, result,
                 ret, escaped, hist>>
  /\ UNCHANGED otherVars

\* response = self.model.invoke(full_prompt)
Invoke ==
  /\ pc = "invoke"
  /\ \E o \in ModelOutcomes :
       IF o.raises
       THEN Raise("invoke", "ConnectionError") /\ UNCHANGED response
       ELSE /\ response' = o
            /\ pc' = "read"
            /\ UNCHANGED <<ret, escaped, hist>>
  /\ UNCHANGED <<df, question, data_info, full_prompt, response_text, result>>
  /\ UNCHANGED otherVars

\* response_text = response.content.strip()
ReadReply ==
  /\ pc = "read"
  /\ IF response.isText
     THEN /\ response_text' = Strip(response.content)
          /\ pc' = "parse"
          /\ UNCHANGED <<ret, escaped, hist>>
     ELSE Raise("read", "AttributeError") /\ UNCHANGED response_text
  /\ UNCHANGED <<df, question, data_info, full_prompt, response, result>>
  /\ UNCHANGED otherVars

\* result = json.loads(response_text)
ParseDirect ==
  /\ pc = "parse"
  /\ LET r == JsonLoads(response_text) IN
       CASE r.st = "ok" ->
              /\ result' = r.val
              /\ pc' = "validate"
              /\ hist' = [hist EXCEPT !.direct = "ok"]
              /\ UNCHANGED <<ret, escaped>>
         [] r.st = "decode" ->
              /\ pc' = "salvage"
              /\ hist' = [hist EXCEPT !.direct = "decode"]
              /\ UNCHANGED <<result, ret, escaped>>
         [] OTHER -> Raise("parse", "RecursionError") /\ UNCHANGED result
  /\ UNCHANGED <<df, question, data_info, full_prompt, response, response_text>>
  /\ UNCHANGED otherVars

\* if self._validate_data_consistency(result, df): ... else: ...
ValidateDirect ==
  /\ pc = "validate"
  /\ hist' = [hist EXCEPT !.check = ValidateBody(result, df)]
  /\ ret' = IF ValidateDataConsistency(result, df)
            THEN Success(result, response_text)
            ELSE Failure(MsgInconsistent, "", response_text)
  /\ pc' = "done"
  /\ UNCHANGED <<df, question, data_info, full_prompt, response, response_text,
                 result, escaped>>
  /\ UNCHANGED otherVars

\* except json.JSONDecodeError as e: result = self._extract_json_from_text(...)
Salvage ==
  /\ pc = "salvage"
  /\ LET x == ExtractJsonFromText(response_text) IN
       IF x.st = "raised"
       THEN Raise("salvage", "RecursionError") /\ UNCHANGED result
       ELSE /\ result' = x.val
            /\ hist' = [hist EXCEPT
                          !.salvage = IF x.val = None THEN "nothing" ELSE "ok",
                          !.check = IF PyTruthy(x.val)
                                    THEN ValidateBody(x.val, df) ELSE "none"]
            /\ ret' = IF PyTruthy(x.val) /\ ValidateDataConsistency(x.val, df)
                      THEN Success(x.val, response_text)
                      ELSE Failure(MsgParseOrInconsistent, "JSONDecodeError",
                                   response_text)
            /\ escaped' = FALSE
            /\ pc' = "done"
  /\ UNCHANGED <<df, question, data_info, full_prompt, response, response_text>>
  /\ UNCHANGED otherVars

\* the caller has the result; the agent keeps nothing of the call
Return ==
  /\ pc = "done"
  /\ pc' = "idle"
  /\ df' = NoFrame
  /\ question' = ""
  /\ data_info' = <<>>
  /\ full_prompt' = [info |-> <<>>, question |-> ""]
  /\ response' = NoResponse
  /\ response_text' = <<>>
  /\ result' = None
  /\ ret' = NoReturn
  /\ escaped' = FALSE
  /\ hist' = NoHist
  /\ UNCHANGED otherVars

Next ==
  \/ Call
  \/ Summarise
  \/ BuildPrompt
  \/ Invoke
  \/ ReadReply
  \/ ParseDirect
  \/ ValidateDirect
  \/ Salvage
  \/ Return

Spec == Init /\ [][Next]_vars

(***************************************************************************)
(* The summarizer called on its own: generate_data_summary(df).            *)
(***************************************************************************)
SummaryLayouts ==
  {<<>>,
   <<Column("a", "int64", 3, FALSE)>>,
   <<Column("a", "object", 12, FALSE)>>,
   <<Column("a", "object", 3, FALSE), Column("b", "float64", 2, TRUE)>>,
   <<Column("a", "object", 2, FALSE), Column("a", "int64", 3, FALSE)>>}

SummaryFrames == {DataFrame(n, cols) : n \in 0..MaxRows, cols \in SummaryLayouts}

SummaryCall ==
  /\ pc = "idle"
  /\ \E d \in SummaryFrames :
       /\ df' = d
       /\ data_info' = GenerateDataSummary(d)
  /\ pc' = "summarized"
  /\ UNCHANGED <<question, full_prompt, response, response_text, result, ret,
                 escaped, hist>>
  /\ UNCHANGED otherVars

SummaryReturn ==
  /\ pc = "summarized"
  /\ pc' = "idle"
  /\ df' = NoFrame
  /\ data_info' = <<>>
  /\ UNCHANGED <<question, full_prompt, response, response_text, result, ret,
                 escaped, hist>>
  /\ UNCHANGED otherVars

NextSummary ==
  \/ SummaryCall
  \/ SummaryReturn

SpecSummary == Init /\ [][NextSummary]_vars

(***************************************************************************)
(* Notions the properties of process_query are stated with.                *)
(***************************************************************************)
Returned == pc = "done"

\* the summarizer raised internally and returned its error text
SummaryFaulted == data_info # <<>> /\ data_info[1].kind = "error"

\* the description of the exception each step raises
FaultDescription(step) ==
  CASE step = "invoke" -> "ConnectionError"
    [] step = "read" -> "AttributeError"
    [] OTHER -> "RecursionError"

ProcessingFailure(r) ==
  /\ ~r.success
  /\ r.error.msg = MsgProcessing
  /\ r.raw_response = <<>>

\* ts without the prose words at its two ends
RECURSIVE DropProse(_)
DropProse(ts) ==
  IF ts # <<>> /\ Head(ts) = Word THEN DropProse(Tail(ts))
  ELSE IF ts # <<>> /\ ts[Len(ts)] = Word
  THEN DropProse(SubSeq(ts, 1, Len(ts) - 1))
  ELSE ts

\* v is a JSON object with at least one of the six tags
Tagged(v) == v.kind = "obj" /\ DOMAIN v.m \cap ValidKeys # {}

\* the reply is prose around one well-formed tagged JSON object
ProseAroundTagged(ts) ==
  /\ DropProse(ts) # ts
  /\ JsonLoads(DropProse(ts)).st = "ok"
  /\ Tagged(JsonLoads(DropProse(ts)).val)

\* r has key k, whose payload is an object with an array under each of fs
HasArrays(r, k, fs) ==
  /\ r.kind = "obj"
  /\ k \in DOMAIN r.m
  /\ r.m[k].kind = "obj"
  /\ \A f \in fs : f \in DOMAIN r.m[k].m /\ r.m[k].m[f].kind = "arr"

\* the check of this call accepted the parsed result
CheckPassed == ValidateDataConsistency(result, df)

\* M: the most distinct values of a textual column, the row count when
\* there is none
DistinctBound(d) ==
  LET text == {j \in 1..Len(d.cols) : d.cols[j].dtype = "object"} IN
  IF text = {} THEN d.n
  ELSE CHOOSE m \in {NUnique(d, j) : j \in text} :
         \A j \in text : NUnique(d, j) <= m

(***************************************************************************)
(* C1 as stated: process_query never raises, and a fault raised while      *)
(* summarising, invoking the model, reading the reply, parsing or          *)
(* salvaging ends the call with a Failure that carries the fault's         *)
(* description and the empty raw text.                                     *)
(***************************************************************************)
C1_EveryFaultBecomesFailure ==
  Returned =>
    /\ ~escaped
    /\ (hist.fault # "none" \/ SummaryFaulted) =>
         /\ ProcessingFailure(ret)
         /\ ret.error.detail # ""

(***************************************************************************)
(* C1 amended: process_query never raises; a fault raised while invoking   *)
(* the model, reading the reply, parsing (other than the decode error of   *)
(* the direct parse, which leads to salvage) or salvaging ends the call    *)
(* with the processing Failure, whose message carries the fault's          *)
(* description and whose raw text is empty; a fault raised while           *)
(* summarising is absorbed by the summarizer, whose error text becomes the *)
(* description in the prompt, and the call goes on to the model.           *)
(***************************************************************************)
C1_FaultsBecomeFailure ==
  Returned =>
    /\ ~escaped
    /\ hist.fault # "none" =>
         /\ ProcessingFailure(ret)
         /\ ret.error.detail = FaultDescription(hist.fault)
    /\ hist.fault = "none" => ret.error.msg # MsgProcessing
    /\ SummaryFaulted => full_prompt.info = data_info

\* a fault raised inside the decode-error handler, by the salvage parse
C1_Witness ==
  /\ Returned
  /\ hist.fault = "salvage"
  /\ hist.direct = "decode"
  /\ ProcessingFailure(ret)

(***************************************************************************)
(* C2 as stated: a Failure that is not the processing error has the format *)
(* error message exactly when neither parse yielded an object, and the     *)
(* consistency message exactly when a parse succeeded and the check        *)
(* rejected its result; the messages differ and both carry the reply.      *)
(***************************************************************************)
C2_CategoryIdentifiesCause ==
  (Returned /\ ~ret.success /\ hist.fault = "none") =>
    /\ ret.error.msg = MsgParseOrInconsistent <=> result.kind # "obj"
    /\ ret.error.msg = MsgInconsistent <=>
         (result.kind = "obj" /\ ~CheckPassed)
    /\ MsgInconsistent # MsgParseOrInconsistent
    /\ ret.raw_response = response_text

(***************************************************************************)
(* C2 amended: a Failure that is not the processing error has the          *)
(* consistency message exactly when the direct parse succeeded and the     *)
(* check rejected its result, and the format error message exactly when    *)
(* the direct parse raised a decode error and salvage yielded no object or *)
(* the empty object (a salvaged object holds no nested object, and the     *)
(* check rejects none); the messages differ and both carry the reply.      *)
(***************************************************************************)
C2_FailureCategories ==
  (Returned /\ ~ret.success /\ hist.fault = "none") =>
    /\ ret.error.msg = MsgInconsistent <=>
         (hist.direct = "ok" /\ hist.check = "reject")
    /\ ret.error.msg = MsgParseOrInconsistent <=>
         (hist.direct = "decode" /\ result \in {None, Obj(EmptyMap)})
    /\ ret.error.msg \in {MsgInconsistent, MsgParseOrInconsistent}
    /\ MsgInconsistent # MsgParseOrInconsistent
    /\ ret.raw_response = response_text

\* salvage parsed the empty object, and the call failed with the format error
C2_Witness ==
  /\ Returned
  /\ hist.salvage = "ok"
  /\ result = Obj(EmptyMap)
  /\ ret = Failure(MsgParseOrInconsistent, "JSONDecodeError", response_text)

(***************************************************************************)
(* C3: every Success carries a JSON object with at least one of the six    *)
(* tags, and the reply text.                                               *)
(***************************************************************************)
C3_SuccessIsStructured ==
  (Returned /\ ret.success) =>
    /\ ValidateResponseFormat(ret.data)
    /\ ret.raw_response = response_text

(***************************************************************************)
(* C4: when the reply is prose before and/or after one well-formed tagged  *)
(* JSON object, salvage parses that whole object, and when the check       *)
(* passes it the call returns Success with it.                             *)
(***************************************************************************)
C4_SalvageWholeObject ==
  (Returned /\ ProseAroundTagged(response_text)) =>
    /\ hist.direct = "decode"
    /\ result = JsonLoads(DropProse(response_text)).val
    /\ ValidateDataConsistency(JsonLoads(DropProse(response_text)).val, df) =>
         ret = Success(JsonLoads(DropProse(response_text)).val, response_text)

\* the part of C4 the code does keep: a tagged object with no nested object
C4_SalvageFlatObject ==
  (Returned /\ ProseAroundTagged(response_text)
     /\ \A k \in DOMAIN JsonLoads(DropProse(response_text)).val.m :
          JsonLoads(DropProse(response_text)).val.m[k].kind # "obj") =>
    ret = Success(JsonLoads(DropProse(response_text)).val, response_text)

(***************************************************************************)
(* C5: a parsed response with a table key whose payload has a data array   *)
(* is rejected by the check if and only if the array has more than 2 times *)
(* the dataset's rows; the call then fails with the consistency error and  *)
(* the reply text, and a table within the bound passes.                    *)
(***************************************************************************)
C5_TableRowBound ==
  (Returned /\ hist.fault = "none" /\ HasArrays(result, "table", {"data"})) =>
    LET rows == result.m["table"].m["data"].len IN
    /\ ~CheckPassed <=> rows > 2 * df.n
    /\ hist.check = (IF rows > 2 * df.n THEN "reject" ELSE "pass")
    /\ rows > 2 * df.n => ret = Failure(MsgInconsistent, "", response_text)
    /\ rows <= 2 * df.n => ret = Success(result, response_text)

\* three table rows for a dataset of one row: rejected
C5_Witness ==
  /\ Returned
  /\ HasArrays(result, "table", {"data"})
  /\ result.m["table"].m["data"].len = 3
  /\ df.n = 1
  /\ ret = Failure(MsgInconsistent, "", response_text)

(***************************************************************************)
(* C6 as stated: a parsed response with a bar or line key and no table     *)
(* key, whose payload has both a columns and a data array, is rejected by  *)
(* the check if and only if len(data) differs from len(columns) or         *)
(* len(data) is greater than 2 times M.                                    *)
(***************************************************************************)
C6_ChartBound ==
  \A k \in {"bar", "line"} :
    (Returned /\ hist.fault = "none" /\ result.kind = "obj"
       /\ "table" \notin DOMAIN result.m
       /\ HasArrays(result, k, {"columns", "data"})) =>
      LET n == result.m[k].m["data"].len
          c == result.m[k].m["columns"].len IN
      ~CheckPassed <=> (n # c \/ n > 2 * DistinctBound(df))

(***************************************************************************)
(* C6 amended: the payload the check examines is that of bar when the      *)
(* response has a bar key, and that of line otherwise.  When that payload  *)
(* has both a columns and a data array (and the response has no table      *)
(* key), the check rejects if and only if len(data) differs from           *)
(* len(columns), or the dataset's column labels are distinct and len(data) *)
(* is greater than 2 times M; with a repeated column label computing M     *)
(* raises, and a payload of equal lengths passes whatever its size.        *)
(***************************************************************************)
C6_ExaminedChartBound ==
  LET k == IF result.kind = "obj" /\ "bar" \in DOMAIN result.m
           THEN "bar" ELSE "line" IN
  (Returned /\ hist.fault = "none" /\ result.kind = "obj"
     /\ "table" \notin DOMAIN result.m
     /\ HasArrays(result, k, {"columns", "data"})) =>
    LET n == result.m[k].m["data"].len
        c == result.m[k].m["columns"].len
        rejected == n # c \/ (~DuplicateLabels(df) /\ n > 2 * DistinctBound(df)) IN
    /\ ~CheckPassed <=> rejected
    /\ rejected => ret = Failure(MsgInconsistent, "", response_text)
    /\ ~rejected => ret = Success(result, response_text)

\* a bar chart of three bars over a dataset whose text column has one value
C6_Witness ==
  /\ Returned
  /\ HasArrays(result, "bar", {"columns", "data"})
  /\ "table" \notin DOMAIN result.m
  /\ result.m["bar"].m["data"].len = 3
  /\ result.m["bar"].m["columns"].len = 3
  /\ DistinctBound(df) = 1
  /\ ~DuplicateLabels(df)
  /\ ret = Failure(MsgInconsistent, "", response_text)

(***************************************************************************)
(* C7: a parsed response that the renderer displays as answer, pie or      *)
(* scatter passes the consistency check, for every dataset and whatever    *)
(* its other keys.                                                         *)
(***************************************************************************)
C7_DisplayedTagPasses ==
  (Returned /\ hist.fault = "none" /\ hist.check # "none"
     /\ RenderedAs(result) \in {"answer", "pie", "scatter"}) =>
    /\ CheckPassed
    /\ ret.success

\* the part of C7 the code does keep: no table, bar or line key
C7_UncheckedTagsPass ==
  (Returned /\ hist.fault = "none" /\ hist.check # "none"
     /\ result.kind = "obj"
     /\ DOMAIN result.m \cap {"table", "bar", "line"} = {}) =>
    CheckPassed /\ ret.success

(***************************************************************************)
(* C8: whenever evaluating the consistency check raises, the check passes  *)
(* and process_query returns Success with the parsed result.               *)
(***************************************************************************)
C8_FailOpen ==
  (Returned /\ hist.check = "raised") =>
    /\ CheckPassed
    /\ ret = Success(result, response_text)

\* a table whose data is a number: len() raises, the reply is a Success
C8_Witness ==
  /\ Returned
  /\ hist.check = "raised"
  /\ result.kind = "obj"
  /\ "table" \in DOMAIN result.m
  /\ result.m["table"].kind = "obj"
  /\ "data" \in DOMAIN result.m["table"].m
  /\ result.m["table"].m["data"] = Num
  /\ ret.success

(***************************************************************************)
(* Notions the properties of the description are stated with.              *)
(***************************************************************************)
Summarized == pc = "summarized"

IsRowLine(l) == l.kind = "row"
IsMiddleHeader(l) == l.kind = "middle"

\* the row lines of the description, in order
RowsOf(info) == SelectSeq(info, IsRowLine)

\* the line "label: col=value, ..." of the row at position pos (0-based)
ExpectedRow(d, pos) ==
  [kind |-> "row", label |-> pos + 1,
   cells |-> [j \in 1..Len(d.cols) |->
                [col |-> d.cols[j].name, val |-> Cell(d, j, pos)]]]

\* the index in info of its i-th row line
RowIndex(info, i) ==
  CHOOSE k \in 1..Len(info) :
    /\ info[k].kind = "row"
    /\ Cardinality({l \in 1..k : info[l].kind = "row"}) = i

(***************************************************************************)
(* C9: for a dataset of n <= 100 rows the description has exactly n row    *)
(* lines, the i-th labelled i and listing every column of row i as         *)
(* column=value.                                                           *)
(***************************************************************************)
C9_FullDump ==
  (Summarized /\ df.n <= 100) =>
    /\ Len(RowsOf(data_info)) = df.n
    /\ \A i \in 1..df.n : RowsOf(data_info)[i] = ExpectedRow(df, i - 1)

\* C9 for the datasets whose column labels are distinct
C9_FullDumpDistinctLabels ==
  (Summarized /\ df.n <= 100 /\ ~DuplicateLabels(df)) =>
    /\ Len(RowsOf(data_info)) = df.n
    /\ \A i \in 1..df.n : RowsOf(data_info)[i] = ExpectedRow(df, i - 1)

(***************************************************************************)
(* C10: for a dataset of n > 100 rows the description has exactly three    *)
(* windows of ten row lines: the first ten rows, the rows at positions     *)
(* n/2-5 up to but excluding n/2+5, and the last ten rows; the range in    *)
(* the middle window's header is the labels of the rows under it.          *)
(***************************************************************************)
SampleWindows(info, d) ==
  LET rows == RowsOf(info)
      mid == d.n \div 2 IN
  /\ Len(rows) = 30
  /\ \A i \in 1..10 : rows[i] = ExpectedRow(d, i - 1)
  /\ \A i \in 1..10 : rows[10 + i] = ExpectedRow(d, mid - 5 + i - 1)
  /\ \A i \in 1..10 : rows[20 + i] = ExpectedRow(d, d.n - 10 + i - 1)
  /\ Len(SelectSeq(info, IsMiddleHeader)) = 1
  /\ \A k \in 1..Len(info) :
       info[k].kind = "middle" =>
         /\ RowIndex(info, 10) < k
         /\ k < RowIndex(info, 11)
         /\ info[k].first = rows[11].label
         /\ info[k].last = rows[20].label
  \* a window is ten consecutive lines; other lines separate the windows
  /\ \A w \in 0..2 : RowIndex(info, 10 * w + 10) = RowIndex(info, 10 * w + 1) + 9
  /\ RowIndex(info, 11) > RowIndex(info, 10) + 1
  /\ RowIndex(info, 21) > RowIndex(info, 20) + 1

C10_SampleWindows ==
  (Summarized /\ df.n > 100) => SampleWindows(data_info, df)

\* C10 for the datasets whose column labels are distinct
C10_SampleWindowsDistinctLabels ==
  (Summarized /\ df.n > 100 /\ ~DuplicateLabels(df)) =>
    SampleWindows(data_info, df)

(***************************************************************************)
(* Notions the properties of the summarizer's degradation are stated with. *)
(***************************************************************************)
\* the lines of a description, as a set
LinesOf(info) == {info[k] : k \in 1..Len(info)}

\* the row lines the rows section of a dataset of n rows has
RowSectionSize(n) == IF n <= 100 THEN n ELSE 30

\* the description has the counts, an entry for every column and the rows
DescriptionProduced(info, d) ==
  /\ info # <<>>
  /\ info[1].kind # "error"
  /\ [kind |-> "field", text |-> "rows", value |-> d.n] \in LinesOf(info)
  /\ [kind |-> "field", text |-> "cols", value |-> Len(d.cols)] \in LinesOf(info)
  /\ \A j \in 1..Len(d.cols) :
       [kind |-> "name", text |-> "name", name |-> d.cols[j].name] \in LinesOf(info)
  /\ Len(RowsOf(info)) = RowSectionSize(d.n)

(***************************************************************************)
(* C11: the summarizer never fails and degrades per column: for every      *)
(* dataset the description holds the counts, the entry of every column     *)
(* and the row section; it is never replaced as a whole.                   *)
(***************************************************************************)
C11_NeverAborted ==
  Summarized => DescriptionProduced(data_info, df)

\* C11 for the datasets whose column labels are distinct
C11_NeverAbortedDistinctLabels ==
  (Summarized /\ ~DuplicateLabels(df)) => DescriptionProduced(data_info, df)

(***************************************************************************)
(* DataVisualizer: what streamlit is told to show.  A renderer's outcome   *)
(* is the sequence of the elements it showed.                              *)
(***************************************************************************)
\* a list of n elements of one sort: "numbers" (their sum is not zero),
\* "zeros" (numbers whose sum is zero), "strings", or "rows" of `width` cells
ListOf(n, elems, width) ==
  [kind |-> "arr", len |-> n, elems |-> elems, width |-> width]

\* the sort of a list's elements; a plain list holds numbers
Elems(v) == IF "elems" \in DOMAIN v THEN v.elems ELSE "numbers"

\* the columns a list gives a DataFrame built from it: a scalar is one cell
Width(v) == IF "width" \in DOMAIN v THEN v.width ELSE 1

\* d.get(key, default): only a dict has get
PyGet(v, key, default) ==
  IF v.kind # "obj" THEN Raised
  ELSE IF key \in DOMAIN v.m THEN v.m[key] ELSE default

\* plotly and pandas take a list where the code hands them one
IsList(v) == v.kind = "arr"

\* st.info, st.warning, st.error
Info(v) == [el |-> "info", payload |-> v]
Warning(msg) == [el |-> "warning", msg |-> msg]
Error(msg, detail) == [el |-> "error", msg |-> msg, detail |-> detail]
\* st.plotly_chart of a figure with n categories (points) and the text `text`
PlotlyChart(tag, n, text) ==
  [el |-> "plotly_chart", tag |-> tag, categories |-> n, text |-> text]
\* st.dataframe, st.subheader, st.download_button, st.expander, st.json
Dataframe(n, w) == [el |-> "dataframe", rows |-> n, cols |-> w]
Subheader == [el |-> "subheader"]
DownloadButton(n, w) == [el |-> "download_button", rows |-> n, cols |-> w]
Expander(title) == [el |-> "expander", title |-> title]
Json(v) == [el |-> "json", payload |-> v]

\* the notices of render_response
MsgNothingToShow == "nothing to show"
MsgUnsupported == "unsupported format"
MsgRenderError == "render error"
\* the notices of the per-tag renderers
MsgTableEmpty == "table data empty"
MsgChartEmpty == "chart data empty"
MsgTableError == "table render error"
MsgBarError == "bar render error"
MsgLineError == "line render error"
MsgPieError == "pie render error"
MsgScatterError == "scatter render error"
\* the notice of bar and line, repeated for pie
MsgPieMismatchCopied == "columns and data lengths differ"

MsgBarMismatch == "columns and data lengths differ"
MsgLineMismatch == "columns and data lengths differ"
MsgPieMismatch == "labels and values lengths differ"
MsgScatterMismatch == "x and y lengths differ"

\* _render_text_answer
RenderTextAnswer(answer) == <<Info(answer)>>

\* pd.DataFrame(data, columns=columns) builds when data is a list whose rows
\* have as many cells as columns has labels
FrameBuilds(data, columns) ==
  IsList(data) /\ IsList(columns) /\ Width(data) = PyLen(columns)

\* _render_table
RenderTable(table_data) ==
  LET columns == PyGet(table_data, "columns", Arr(0))
      data == PyGet(table_data, "data", Arr(0)) IN
  IF columns = Raised THEN <<Error(MsgTableError, "AttributeError")>>
  ELSE IF ~PyTruthy(columns) \/ ~PyTruthy(data)
  THEN <<Warning(MsgTableEmpty)>>
  ELSE IF ~FrameBuilds(data, columns)
  THEN <<Error(MsgTableError, "ValueError")>>
  ELSE <<Subheader, Dataframe(PyLen(data), PyLen(columns)),
         DownloadButton(PyLen(data), PyLen(columns))>>

\* the part bar and line charts share: the checks, then the figure of
\* len(columns) categories and the details table
CategoryChart(tag, chart_data, msgError, msgMismatch) ==
  LET columns == PyGet(chart_data, "columns", Arr(0))
      data == PyGet(chart_data, "data", Arr(0)) IN
  IF columns = Raised THEN <<Error(msgError, "AttributeError")>>
  ELSE IF ~PyTruthy(columns) \/ ~PyTruthy(data)
  THEN <<Warning(MsgChartEmpty)>>
  ELSE IF PyLen(columns) < 0 \/ PyLen(data) < 0
  THEN <<Error(msgError, "TypeError")>>
  ELSE IF PyLen(columns) # PyLen(data) THEN <<Error(msgMismatch, "")>>
  ELSE IF ~IsList(columns) \/ ~IsList(data)
  THEN <<Error(msgError, "ValueError")>>
  ELSE <<PlotlyChart(tag, PyLen(columns), data), Expander("details"),
         Dataframe(PyLen(columns), 2)>>

\* _render_bar_chart
RenderBarChart(chart_data) ==
  CategoryChart("bar", chart_data, MsgBarError, MsgBarMismatch)

\* _render_line_chart
RenderLineChart(chart_data) ==
  CategoryChart("line", chart_data, MsgLineError, MsgLineMismatch)

\* the share column of the pie's details table, v/sum(values) for each v,
\* can be computed
SharesCompute(values) == Elems(values) = "numbers"

\* _render_pie_chart: the figure is shown before the details table is built
RenderPieChart(chart_data) ==
  LET labels == PyGet(chart_data, "labels", Arr(0))
      values == PyGet(chart_data, "values", Arr(0)) IN
  IF labels = Raised THEN <<Error(MsgPieError, "AttributeError")>>
  ELSE IF ~PyTruthy(labels) \/ ~PyTruthy(values)
  THEN <<Warning(MsgChartEmpty)>>
  ELSE IF PyLen(labels) < 0 \/ PyLen(values) < 0
  THEN <<Error(MsgPieError, "TypeError")>>
  ELSE IF PyLen(labels) # PyLen(values) THEN <<Error(MsgPieMismatch, "")>>
  ELSE IF ~IsList(labels) \/ ~IsList(values)
  THEN <<Error(MsgPieError, "ValueError")>>
  ELSE <<PlotlyChart("pie", PyLen(labels), labels), Expander("details")>>
       \o (IF SharesCompute(values) THEN <<Dataframe(PyLen(labels), 3)>>
           ELSE <<Error(MsgPieError,
                        IF Elems(values) = "zeros" THEN "ZeroDivisionError"
                        ELSE "TypeError")>>)

\* labels numbered from 0: f"点{i}"
PointLabelsFromZero(n) == ListOf(n, "points from 0", 1)

\* [f"点{i+1}" for i in range(len(x_data))]
PointLabels(n) == ListOf(n, "points", 1)

\* _render_scatter_chart
RenderScatterChart(chart_data) ==
  LET x_data == PyGet(chart_data, "x", Arr(0))
      y_data == PyGet(chart_data, "y", Arr(0))
      labels == PyGet(chart_data, "labels", Arr(0)) IN
  IF x_data = Raised THEN <<Error(MsgScatterError, "AttributeError")>>
  ELSE IF ~PyTruthy(x_data) \/ ~PyTruthy(y_data)
  THEN <<Warning(MsgChartEmpty)>>
  ELSE IF PyLen(x_data) < 0 \/ PyLen(y_data) < 0
  THEN <<Error(MsgScatterError, "TypeError")>>
  ELSE IF PyLen(x_data) # PyLen(y_data) THEN <<Error(MsgScatterMismatch, "")>>
  ELSE IF PyTruthy(labels) /\ PyLen(labels) < 0
  THEN <<Error(MsgScatterError, "TypeError")>>
  ELSE LET used == IF ~PyTruthy(labels) THEN PointLabels(PyLen(x_data))
                   ELSE IF PyLen(labels) # PyLen(x_data)
                   THEN PointLabels(PyLen(x_data))
                   ELSE labels IN
       IF ~IsList(x_data) \/ ~IsList(y_data)
       THEN <<Error(MsgScatterError, "ValueError")>>
       ELSE <<PlotlyChart("scatter", PyLen(x_data), used), Expander("details"),
              Dataframe(PyLen(x_data), 3)>>

\* the per-tag renderer of a tag
RendererOf(tag, payload) ==
  CASE tag = "answer" -> RenderTextAnswer(payload)
    [] tag = "table" -> RenderTable(payload)
    [] tag = "bar" -> RenderBarChart(payload)
    [] tag = "line" -> RenderLineChart(payload)
    [] tag = "pie" -> RenderPieChart(payload)
    [] tag = "scatter" -> RenderScatterChart(payload)

(***************************************************************************)
(* The inputs of render_response: every JSON value process_query can       *)
(* return as data.                                                         *)
(***************************************************************************)
\* what a field of a chart payload holds
RenderFields ==
  {None, Num, Str(2, {})} \cup {Arr(n) : n \in 0..MaxLen}

\* what the values of a pie hold
PieValues ==
  RenderFields \cup {ListOf(2, "zeros", 1), ListOf(2, "strings", 1)}

\* what the data of a table hold: n rows of w cells
TableRows ==
  {None, Num, Arr(0), Arr(2)}
  \cup {ListOf(n, "rows", w) : n \in 1..2, w \in 1..2}

\* a field the payload does not have
Absent == [kind |-> "absent"]

\* the dict with the value vs[i] under the field fs[i], for the fields present
Payload(fs, vs) ==
  Obj([k \in {fs[i] : i \in {j \in 1..Len(fs) : vs[j] # Absent}} |->
         vs[CHOOSE i \in 1..Len(fs) : fs[i] = k]])

WithAbsent(S) == S \cup {Absent}

\* a payload that is no dict
NonDicts == {None, Num, Str(2, {}), Arr(1)}

RenderPayloads(tag) ==
  CASE tag = "answer" -> {Str(2, {}), Num, None}
    [] tag = "table" ->
         NonDicts \cup
         {Payload(<<"columns", "data">>, <<c, d>>) :
            c \in WithAbsent(RenderFields), d \in WithAbsent(TableRows)}
    [] tag \in {"bar", "line"} ->
         NonDicts \cup
         {Payload(<<"columns", "data">>, <<c, d>>) :
            c \in WithAbsent(RenderFields), d \in WithAbsent(RenderFields)}
    [] tag = "pie" ->
         NonDicts \cup
         {Payload(<<"labels", "values">>, <<l, v>>) :
            l \in WithAbsent(RenderFields), v \in WithAbsent(PieValues)}
    [] tag = "scatter" ->
         NonDicts \cup
         {Payload(<<"x", "y", "labels">>, <<x, y, l>>) :
            x \in WithAbsent(RenderFields), y \in WithAbsent(RenderFields),
            l \in WithAbsent(RenderFields)}

\* one well-formed and one ill-formed payload of each tag
SmallRenderPayloads(tag) ==
  CASE tag = "answer" -> {Str(2, {}), None}
    [] tag = "table" ->
         {Payload(<<"columns", "data">>, <<Arr(2), ListOf(1, "rows", 2)>>),
          Payload(<<"columns", "data">>, <<Arr(2), ListOf(1, "rows", 1)>>)}
    [] tag \in {"bar", "line"} ->
         {Payload(<<"columns", "data">>, <<Arr(2), Arr(2)>>),
          Payload(<<"columns", "data">>, <<Arr(2), Arr(1)>>)}
    [] tag = "pie" ->
         {Payload(<<"labels", "values">>, <<Arr(2), Arr(2)>>), Num}
    [] tag = "scatter" ->
         {Payload(<<"x", "y">>, <<Arr(3), Arr(3)>>),
          Payload(<<"x", "y">>, <<Arr(3), Arr(0)>>)}

\* the dicts with one recognised key
OneTagResponses ==
  UNION {{Obj([k \in {tag} |-> p]) : p \in RenderPayloads(tag)} : tag \in ValidKeys}

\* the dicts with two recognised keys, and with a key that is not recognised
TwoTagResponses ==
  UNION {{Obj([k \in {s, t} |-> IF k = s THEN p ELSE q]) :
            p \in SmallRenderPayloads(s), q \in SmallRenderPayloads(t)} :
         s \in ValidKeys, t \in ValidKeys}

\* the dict with all six keys
AllTagsResponse ==
  Obj([k \in ValidKeys |->
         CHOOSE p \in SmallRenderPayloads(k) : p.kind \in {"obj", "str"}])

UntaggedResponses ==
  {Obj(EmptyMap), Obj([k \in {"other"} |-> Num]),
   Obj([k \in {"other", "more"} |-> Arr(1)])}

\* values that are no dict: a str may hold a tag as a substring
NonDictResponses ==
  {None, Num, Arr(0), Arr(1), Str(0, {}), Str(2, {}), Str(6, {"answer"}),
   Str(5, {"table"}), Str(7, {"scatter"})}

RenderInputs ==
  OneTagResponses \cup TwoTagResponses \cup {AllTagsResponse}
  \cup UntaggedResponses \cup NonDictResponses

(***************************************************************************)
(* render_response.                                                        *)
(***************************************************************************)
\* except Exception as e, of render_response
RenderCatches(exc) == TRUE

\* the caller calls render_response(response_data)
RenderCall ==
  /\ pc = "idle"
  /\ \E r \in RenderInputs : response_data' = r
  /\ pc' = "render"
  /\ shown' = <<>>
  /\ calls' = <<>>
  /\ escaped' = FALSE
  /\ UNCHANGED <<agentVars, prev_info, uiVars>>

\* if not response_data: ...; the if/elif chain, and its handler
Dispatch ==
  /\ pc = "render"
  /\ LET tag == RenderedAs(response_data) IN
       CASE tag = "empty" ->
              /\ shown' = <<Warning(MsgNothingToShow)>>
              /\ pc' = "rendered"
              /\ UNCHANGED <<calls, escaped>>
         [] tag = "unsupported" ->
              /\ shown' = <<Warning(MsgUnsupported)>>
              /\ pc' = "rendered"
              /\ UNCHANGED <<calls, escaped>>
         [] tag = "raised" ->
              /\ pc' = "rendered"
              /\ IF RenderCatches("TypeError")
                 THEN /\ shown' = <<Error(MsgRenderError, "TypeError"),
                                    Expander("raw"), Json(response_data)>>
                      /\ UNCHANGED escaped
                 ELSE escaped' = TRUE /\ UNCHANGED shown
              /\ UNCHANGED calls
         [] OTHER ->
              /\ calls' = <<[renderer |-> tag, arg |-> PyGetItem(response_data, tag)]>>
              /\ pc' = tag
              /\ UNCHANGED <<shown, escaped>>
  /\ UNCHANGED <<response_data, agentVars, prev_info, uiVars>>

\* self._render_text_answer(response_data['answer'])
TextAnswer ==
  /\ pc = "answer"
  /\ shown' = RenderTextAnswer(calls[1].arg)
  /\ pc' = "rendered"
  /\ UNCHANGED <<response_data, calls, escaped, agentVars, prev_info, uiVars>>

\* self._render_table(response_data['table'])
Table ==
  /\ pc = "table"
  /\ shown' = RenderTable(calls[1].arg)
  /\ pc' = "rendered"
  /\ UNCHANGED <<response_data, calls, escaped, agentVars, prev_info, uiVars>>

\* self._render_bar_chart(response_data['bar'])
BarChart ==
  /\ pc = "bar"
  /\ shown' = RenderBarChart(calls[1].arg)
  /\ pc' = "rendered"
  /\ UNCHANGED <<response_data, calls, escaped, agentVars, prev_info, uiVars>>

\* self._render_line_chart(response_data['line'])
LineChart ==
  /\ pc = "line"
  /\ shown' = RenderLineChart(calls[1].arg)
  /\ pc' = "rendered"
  /\ UNCHANGED <<response_data, calls, escaped, agentVars, prev_info, uiVars>>

\* self._render_pie_chart(response_data['pie'])
PieChart ==
  /\ pc = "pie"
  /\ shown' = RenderPieChart(calls[1].arg)
  /\ pc' = "rendered"
  /\ UNCHANGED <<response_data, calls, escaped, agentVars, prev_info, uiVars>>

\* self._render_scatter_chart(response_data['scatter'])
ScatterChart ==
  /\ pc = "scatter"
  /\ shown' = RenderScatterChart(calls[1].arg)
  /\ pc' = "rendered"
  /\ UNCHANGED <<response_data, calls, escaped, agentVars, prev_info, uiVars>>

\* render_response returns; the page keeps nothing of the call
RenderReturn ==
  /\ pc = "rendered"
  /\ pc' = "idle"
  /\ response_data' = None
  /\ shown' = <<>>
  /\ calls' = <<>>
  /\ escaped' = FALSE
  /\ UNCHANGED <<agentVars, prev_info, uiVars>>

NextRender ==
  \/ RenderCall
  \/ Dispatch
  \/ TextAnswer
  \/ Table
  \/ BarChart
  \/ LineChart
  \/ PieChart
  \/ ScatterChart
  \/ RenderReturn

SpecRender == Init /\ [][NextRender]_vars

(***************************************************************************)
(* Notions the properties of the renderer are stated with.                 *)
(***************************************************************************)
Rendered == pc = "rendered"

\* the elements of `s` of the sorts `els`
Shown(s, els) == {k \in 1..Len(s) : s[k].el \in els}

ChartDrawn(s) == Shown(s, {"plotly_chart"}) # {}
NoticeShown(s) == Shown(s, {"warning", "error"}) # {}

\* an error notice that carries the description of an exception
FaultShown(s) == \E k \in Shown(s, {"error"}) : s[k].detail # ""

\* the priority as the specification states it
StatedOrder == <<"answer", "table", "bar", "line", "pie", "scatter">>

\* the recognised keys of a dict
TagsOf(r) == DOMAIN r.m \cap ValidKeys

\* the first key of r in the stated order
FirstTag(r) ==
  StatedOrder[CHOOSE i \in 1..6 :
                /\ StatedOrder[i] \in TagsOf(r)
                /\ \A j \in 1..(i - 1) : StatedOrder[j] \notin TagsOf(r)]

\* the response is a dict with a recognised key, and was dispatched
Dispatched ==
  /\ pc \in {"answer", "table", "bar", "line", "pie", "scatter", "rendered"}
  /\ response_data.kind = "obj"
  /\ TagsOf(response_data) # {}

\* the payload under `tag` was rendered, and its two fields are lists
RenderedLists(tag, f, g) ==
  /\ Rendered
  /\ Len(calls) = 1
  /\ calls[1].renderer = tag
  /\ calls[1].arg.kind = "obj"
  /\ {f, g} \subseteq DOMAIN calls[1].arg.m
  /\ calls[1].arg.m[f].kind = "arr"
  /\ calls[1].arg.m[g].kind = "arr"

\* the two sibling fields of a chart tag
Siblings(tag) ==
  CASE tag \in {"bar", "line"} -> <<"columns", "data">>
    [] tag = "pie" -> <<"labels", "values">>
    [] tag = "scatter" -> <<"x", "y">>

ChartTags == {"bar", "line", "pie", "scatter"}

\* a chart payload was rendered whose sibling lists are both non-empty, of
\* equal lengths (same = TRUE) or of different lengths (same = FALSE)
RenderedSiblings(tag, same) ==
  /\ RenderedLists(tag, Siblings(tag)[1], Siblings(tag)[2])
  /\ LET a == calls[1].arg.m[Siblings(tag)[1]].len
         b == calls[1].arg.m[Siblings(tag)[2]].len IN
     a > 0 /\ b > 0 /\ ((a = b) <=> same)

\* the mismatch notice of a tag
MismatchMsg(tag) ==
  CASE tag = "bar" -> MsgBarMismatch
    [] tag = "line" -> MsgLineMismatch
    [] tag = "pie" -> MsgPieMismatch
    [] tag = "scatter" -> MsgScatterMismatch

(***************************************************************************)
(* C12: for a response with recognised keys exactly one per-tag renderer   *)
(* runs, that of the first present key in the order answer, table, bar,    *)
(* line, pie, scatter, and it receives that key's payload only: what is    *)
(* shown is what that renderer shows for that payload.                     *)
(***************************************************************************)
C12_DispatchPriority ==
  Dispatched =>
    /\ Len(calls) = 1
    /\ calls[1].renderer = FirstTag(response_data)
    /\ calls[1].arg = response_data.m[FirstTag(response_data)]
    /\ Rendered =>
         shown = RendererOf(FirstTag(response_data),
                            response_data.m[FirstTag(response_data)])

\* a response with all six keys was rendered as its answer
C12_Witness ==
  /\ Rendered
  /\ response_data.kind = "obj"
  /\ TagsOf(response_data) = ValidKeys
  /\ Len(calls) = 1
  /\ calls[1].renderer = "answer"
  /\ shown = <<Info(response_data.m["answer"])>>

(***************************************************************************)
(* C13 as stated: a bar, line, pie or scatter payload whose sibling lists  *)
(* are non-empty and of different lengths gets a mismatch notice and no    *)
(* chart, and the notice is that of no other tag.                          *)
(***************************************************************************)
C13_MismatchNoticePerTag ==
  \A tag \in ChartTags :
    RenderedSiblings(tag, FALSE) =>
      /\ shown = <<Error(MismatchMsg(tag), "")>>
      /\ ~ChartDrawn(shown)
      /\ \A other \in ChartTags \ {tag} : shown[1].msg # MismatchMsg(other)

(***************************************************************************)
(* C13 amended: such a payload gets the mismatch notice of its fields and  *)
(* no chart; bar and line, whose fields are columns and data, share one    *)
(* notice, and the notices of pie and of scatter are each their own.       *)
(***************************************************************************)
C13_MismatchNoticePerFields ==
  \A tag \in ChartTags :
    RenderedSiblings(tag, FALSE) =>
      /\ shown = <<Error(MismatchMsg(tag), "")>>
      /\ ~ChartDrawn(shown)
      /\ \A other \in ChartTags \ {tag} :
           (shown[1].msg = MismatchMsg(other)) <=> ({tag, other} = {"bar", "line"})

\* a pie of two labels and three values was refused
C13_Witness ==
  /\ RenderedSiblings("pie", FALSE)
  /\ calls[1].arg.m["labels"].len = 2
  /\ calls[1].arg.m["values"].len = 3
  /\ shown = <<Error(MsgPieMismatch, "")>>

\* the error notice of a per-tag renderer's own handler
TagError(tag) ==
  CASE tag = "table" -> MsgTableError
    [] tag = "bar" -> MsgBarError
    [] tag = "line" -> MsgLineError
    [] tag = "pie" -> MsgPieError
    [] tag = "scatter" -> MsgScatterError
    [] OTHER -> ""

\* the elements shown, as a set
ShownSet(s) == {s[k] : k \in 1..Len(s)}

(***************************************************************************)
(* C14: a fault raised during rendering, in the dispatch or inside a       *)
(* per-tag renderer, never leaves render_response; the render-error notice *)
(* is shown, and with it the raw response, verbatim.                       *)
(***************************************************************************)
C14_FaultsShowRawPayload ==
  /\ ~escaped
  /\ (Rendered /\ FaultShown(shown)) =>
       /\ \E k \in Shown(shown, {"error"}) : shown[k].msg = MsgRenderError
       /\ Json(response_data) \in ShownSet(shown)

\* what the code does keep of C14: no fault leaves render_response, a fault
\* of the dispatch shows the render-error notice with the raw response, and
\* a fault inside a per-tag renderer ends in that renderer's own error
\* notice, without the raw response
C14_FaultsCaughtWhereRaised ==
  /\ ~escaped
  /\ (Rendered /\ FaultShown(shown)) =>
       IF calls = <<>>
       THEN shown = <<Error(MsgRenderError, "TypeError"), Expander("raw"),
                      Json(response_data)>>
       ELSE /\ shown[Len(shown)].el = "error"
            /\ shown[Len(shown)].msg = TagError(calls[1].renderer)
            /\ Shown(shown, {"json"}) = {}

(***************************************************************************)
(* C15 as stated: for every dict with none of the six recognised keys,     *)
(* the empty dict included, the renderer shows the 'unsupported format'    *)
(* notice and the raw structure.                                           *)
(***************************************************************************)
C15_UntaggedUnsupported ==
  (Rendered /\ response_data.kind = "obj" /\ TagsOf(response_data) = {}) =>
    /\ Warning(MsgUnsupported) \in ShownSet(shown)
    /\ Json(response_data) \in ShownSet(shown)

(***************************************************************************)
(* C15 amended: for a non-empty dict with none of the six recognised keys  *)
(* the renderer shows the 'unsupported format' notice and nothing else;    *)
(* for the empty dict it shows the 'nothing to show' notice and nothing    *)
(* else.  No renderer is called in either case.                            *)
(***************************************************************************)
C15_UntaggedNotices ==
  (Rendered /\ response_data.kind = "obj" /\ TagsOf(response_data) = {}) =>
    /\ calls = <<>>
    /\ DOMAIN response_data.m # {} =>
         shown = <<[el |-> "warning", msg |-> "unsupported format"]>>
    /\ DOMAIN response_data.m = {} =>
         shown = <<[el |-> "warning", msg |-> "nothing to show"]>>

\* a dict with two keys, neither recognised, got the unsupported notice
C15_Witness ==
  /\ Rendered
  /\ response_data.kind = "obj"
  /\ DOMAIN response_data.m = {"other", "more"}
  /\ shown = <<Warning(MsgUnsupported)>>

(***************************************************************************)
(* C16: for a scatter payload with non-empty x and y of equal length n,    *)
(* the chart is drawn with the supplied labels when labels is a list of n  *)
(* elements, and with point-1 .. point-n when labels is missing, null,     *)
(* empty or of another length; no notice is shown.                         *)
(***************************************************************************)
\* the labels point-1 .. point-n
SynthesisedLabels(n) ==
  [kind |-> "arr", len |-> n, elems |-> "points", width |-> 1]

C16_ScatterLabels ==
  (RenderedSiblings("scatter", TRUE)
     /\ ("labels" \in DOMAIN calls[1].arg.m =>
           calls[1].arg.m["labels"].kind \in {"arr", "null"})) =>
    LET p == calls[1].arg.m
        n == p["x"].len
        supplied == "labels" \in DOMAIN p /\ p["labels"].kind = "arr"
                    /\ p["labels"].len = n
        used == IF supplied THEN p["labels"] ELSE SynthesisedLabels(n) IN
    /\ shown = <<PlotlyChart("scatter", n, used), Expander("details"),
                 Dataframe(n, 3)>>
    /\ ~NoticeShown(shown)

\* three points with two labels: drawn with point-1 .. point-3
C16_Witness ==
  /\ RenderedSiblings("scatter", TRUE)
  /\ calls[1].arg.m["x"].len = 3
  /\ "labels" \in DOMAIN calls[1].arg.m
  /\ calls[1].arg.m["labels"] = Arr(2)
  /\ ChartDrawn(shown)
  /\ shown[1].text = SynthesisedLabels(3)

(***************************************************************************)
(* C19: a render call on a bar, line, pie or scatter payload ends either   *)
(* with a chart and no notice or with a notice and no chart; a payload     *)
(* whose sibling lists are non-empty and of equal length gets the chart,   *)
(* with one category per label, and no notice.                             *)
(***************************************************************************)
ChartOrNotice(tag) ==
  /\ (Rendered /\ Len(calls) = 1 /\ calls[1].renderer = tag) =>
       (ChartDrawn(shown) <=> ~NoticeShown(shown))
  /\ RenderedSiblings(tag, TRUE) =>
       /\ Cardinality(Shown(shown, {"plotly_chart"})) = 1
       /\ shown[1].el = "plotly_chart"
       /\ shown[1].categories = calls[1].arg.m[Siblings(tag)[1]].len
       /\ ~NoticeShown(shown)

C19_ChartOrNotice == \A tag \in ChartTags : ChartOrNotice(tag)

\* C19 for bar and line, whose details table has no computed column and
\* which have no third field
C19_ChartOrNoticeBarLine == \A tag \in {"bar", "line"} : ChartOrNotice(tag)

(***************************************************************************)
(* C20: for a dataset of n > 100 rows the head, middle and tail windows    *)
(* are pairwise disjoint and lie within rows 1..n: the description has     *)
(* exactly 30 row lines, of 30 different rows.                             *)
(***************************************************************************)
ThirtyDistinctRows(info, d) ==
  LET rows == RowsOf(info) IN
  /\ Len(rows) = 30
  /\ \A i \in 1..Len(rows) : rows[i].label \in 1..d.n
  /\ \A i, j \in 1..Len(rows) : rows[i].label = rows[j].label => i = j
  \* the three windows, one after the other
  /\ \A i \in 1..Len(rows) : \A j \in 1..Len(rows) :
       i < j => rows[i].label < rows[j].label

C20_DisjointWindows ==
  (Summarized /\ df.n > 100) => ThirtyDistinctRows(data_info, df)

\* C20 for the datasets whose column labels are distinct
C20_DisjointWindowsDistinctLabels ==
  (Summarized /\ df.n > 100 /\ ~DuplicateLabels(df)) =>
    ThirtyDistinctRows(data_info, df)

(***************************************************************************)
(* The summarizer called twice in a row on the dataset the caller holds.   *)
(***************************************************************************)
\* the caller holds a dataset
HoldFrame ==
  /\ pc = "idle"
  /\ \E d \in SummaryFrames : df' = d
  /\ pc' = "held"
  /\ UNCHANGED <<question, data_info, full_prompt, response, response_text,
                 result, ret, escaped, hist, otherVars>>

\* a summarizer that drops the last row of the frame it is handed, in place
SummaryFirstInPlace ==
  /\ pc = "held"
  /\ data_info' = GenerateDataSummary(df)
  /\ df' = DataFrame(Max(0, df.n - 1), df.cols)
  /\ pc' = "first"
  /\ UNCHANGED <<question, full_prompt, response, response_text, result, ret,
                 escaped, hist, otherVars>>

\* generate_data_summary(df): it assigns to no field of the agent and
\* calls nothing that changes df
SummaryFirst ==
  /\ pc = "held"
  /\ data_info' = GenerateDataSummary(df)
  /\ pc' = "first"
  /\ UNCHANGED <<df, question, full_prompt, response, response_text, result,
                 ret, escaped, hist, otherVars>>

\* generate_data_summary(df) again; the caller keeps the earlier text
SummarySecond ==
  /\ pc = "first"
  /\ prev_info' = data_info
  /\ data_info' = GenerateDataSummary(df)
  /\ pc' = "second"
  /\ UNCHANGED <<df, question, full_prompt, response, response_text, result,
                 ret, escaped, hist, renderVars, uiVars>>

\* the caller lets go of the dataset and the texts
DropFrame ==
  /\ pc = "second"
  /\ pc' = "idle"
  /\ df' = NoFrame
  /\ data_info' = <<>>
  /\ prev_info' = <<>>
  /\ UNCHANGED <<question, full_prompt, response, response_text, result, ret,
                 escaped, hist, renderVars, uiVars>>

NextRepeat ==
  \/ HoldFrame
  \/ SummaryFirst
  \/ SummarySecond
  \/ DropFrame

SpecRepeat == Init /\ [][NextRepeat]_vars

(***************************************************************************)
(* C17: two calls of the summarizer in a row on an unchanged dataset       *)
(* return the same description, and a call changes neither the dataset     *)
(* nor anything else of the state but the description it returns.          *)
(***************************************************************************)
\* the state a summary may not touch, the dataset aside
agentState ==
  <<question, full_prompt, response, response_text, result, ret, escaped, hist>>

\* a step taken by a call of the summarizer changes none of it
SummaryKeepsState ==
  (pc \in {"held", "first"}) =>
    (df' = df /\ UNCHANGED <<agentState, renderVars, uiVars>>)

Files == {"sales.csv", "stock.xlsx"}
\* get_sample_data()
SampleData == "sample"
\* the pages of the selectbox
Pages == {"overview", "analysis", "visualization", "exploration"}

\* upload_file(): the dataset parsed from the file the widget holds, or None
UploadFile(held) == IF held = NoFile THEN NoData ELSE held

\* the user puts a file into the upload widget
UserUploads ==
  /\ trigger = "none"
  /\ \E f \in Files \ {uploaded_file} :
       /\ uploaded_file' = f
       /\ expected' = f
  /\ trigger' = "upload"
  /\ UNCHANGED <<session_data, page, pc, agentVars, escaped, renderVars, prev_info>>

\* the user takes the file out of the upload widget
UserRemovesFile ==
  /\ trigger = "none"
  /\ uploaded_file # NoFile
  /\ uploaded_file' = NoFile
  /\ trigger' = "remove"
  /\ UNCHANGED <<session_data, page, expected, pc, agentVars, escaped,
                 renderVars, prev_info>>

\* the user clicks "使用示例数据"
UserClicksSample ==
  /\ trigger = "none"
  /\ trigger' = "sample"
  /\ expected' = SampleData
  /\ UNCHANGED <<session_data, uploaded_file, page, pc, agentVars, escaped,
                 renderVars, prev_info>>

\* the user clicks "清除数据", which the overview page shows when there is data
UserClicksClear ==
  /\ trigger = "none"
  /\ page = "overview"
  /\ session_data # NoData
  /\ trigger' = "clear"
  /\ expected' = NoData
  /\ UNCHANGED <<session_data, uploaded_file, page, pc, agentVars, escaped,
                 renderVars, prev_info>>

\* the user selects another page
UserSelectsPage ==
  /\ trigger = "none"
  /\ \E p \in Pages \ {page} : page' = p
  /\ trigger' = "page"
  /\ UNCHANGED <<session_data, uploaded_file, expected, pc, agentVars, escaped,
                 renderVars, prev_info>>

\* one run of main(): the upload widget's dataset is stored whenever the
\* widget holds a file; then the sample button, then the page's clear button
RunScript ==
  /\ trigger # "none"
  /\ LET uploaded_data == UploadFile(uploaded_file)
         stored == IF uploaded_data # NoData THEN uploaded_data ELSE session_data IN
       IF trigger = "sample"
       THEN session_data' = SampleData /\ trigger' = "rerun"
       ELSE IF trigger = "clear" /\ page = "overview" /\ stored # NoData
       THEN session_data' = NoData /\ trigger' = "rerun"
       ELSE session_data' = stored /\ trigger' = "none"
  /\ UNCHANGED <<uploaded_file, page, expected, pc, agentVars, escaped,
                 renderVars, prev_info>>

NextUI ==
  \/ UserUploads
  \/ UserRemovesFile
  \/ UserClicksSample
  \/ UserClicksClear
  \/ UserSelectsPage
  \/ RunScript

SpecUI == Init /\ [][NextUI]_vars

(***************************************************************************)
(* C18: whenever the page has settled (no run is pending), the active      *)
(* dataset is the outcome of the user's latest dataset action: the file    *)
(* uploaded, the sample dataset after 'use sample data', none after        *)
(* 'clear data'; and it stays so over the later runs that no dataset       *)
(* action starts, also while the upload widget still holds a file.         *)
(***************************************************************************)
Settled == trigger = "none"

C18_LastActionWins == Settled => session_data = expected

\* what the page does: the file the widget holds wins over the later actions
C18_HeldFileWins ==
  (Settled /\ uploaded_file # NoFile) => session_data = uploaded_file

====
